---------------------------- MODULE Spec2Model ----------------------------
(***************************************************************************)
(* A model of samcli/commands/pipeline/init/interactive_init_flow.py: the  *)
(* interactive "sam pipeline init" wizard.  The state is the position of   *)
(* the one thread of control (pc), the locals of the functions it is in,   *)
(* and the environment the wizard reads and writes: the persisted          *)
(* pipeline configuration (store), the shared clone cache and the working  *)
(* directory (cwd).                                                        *)
(*                                                                         *)
(* Python strings that are inspected character by character (environment   *)
(* names, parameter keys) are tuples of one-character strings; the strings *)
(* the program builds from them (context keys, messages) are TLA+ strings  *)
(* built with \o, so that two of them are equal exactly when the Python    *)
(* strings are.                                                            *)
(***************************************************************************)
EXTENDS Naturals, Sequences, FiniteSets, TLC

(***************************************************************************)
(* Bounds of the model.                                                    *)
(***************************************************************************)
\* the counters of loop iterations, prompts and bootstrap runs saturate here
MaxCount == 3
\* the longest environment list of a store the precondition checker is tried on
MaxEnvs == 3
\* the longest environment list of the store a run of the wizard starts with
MaxFlowEnvs == 2
\* the largest number of stages a diagram is drawn for
MaxStages == 24

(***************************************************************************)
(* Python strings and their conversions.                                   *)
(***************************************************************************)
RECURSIVE Str(_)
\* the Python string whose characters are the tuple cs
Str(cs) == IF cs = <<>> THEN "" ELSE Head(cs) \o Str(Tail(cs))

Contains(cs, c) == \E i \in 1..Len(cs) : cs[i] = c

RECURSIVE Escape(_, _)
\* repr's escaping of the characters of cs inside the quote q
Escape(cs, q) ==
    IF cs = <<>> THEN ""
    ELSE (IF Head(cs) = q \/ Head(cs) = "\\" THEN "\\" \o Head(cs) ELSE Head(cs))
         \o Escape(Tail(cs), q)

\* repr(s) of a Python str: single quotes, unless s holds a single quote and
\* no double quote; the quote character and the backslash are escaped
PyRepr(cs) ==
    LET q == IF Contains(cs, "'") /\ ~Contains(cs, "\"") THEN "\"" ELSE "'"
    IN  q \o Escape(cs, q) \o q

RECURSIVE JoinWith(_, _)
\* sep.join(parts), parts a sequence of strings
JoinWith(sep, parts) ==
    IF parts = <<>> THEN ""
    ELSE IF Len(parts) = 1 THEN parts[1]
    ELSE parts[1] \o sep \o JoinWith(sep, Tail(parts))

\* str(list_of_str): "[" + ", ".join(repr(x)) + "]"
PyStrList(items) ==
    "[" \o JoinWith(", ", [i \in 1..Len(items) |-> PyRepr(items[i])]) \o "]"

(***************************************************************************)
(* Names.                                                                  *)
(***************************************************************************)
DEFAULT == <<"d", "e", "f", "a", "u", "l", "t">>
DEV     == <<"d", "e", "v">>
PROD    == <<"p", "r", "o", "d">>
\* names that hold the characters repr treats specially
ENV_A   == <<"a">>
ENV_AQ  == <<"a", "'", ",", " ", "'", "b">>
KEY_K   == <<"k">>
KEY_QK  == <<"b", "'", ",", " ", "'", "k">>
KEY_ARN == <<"a", "r", "n">>
ENVIRONMENT_NAMES_MESSAGE ==
    <<"e","n","v","i","r","o","n","m","e","n","t","_",
      "n","a","m","e","s","_","m","e","s","s","a","g","e">>

PIPELINE_CONFIG_DIR == ".aws-sam/pipeline"
PIPELINE_CONFIG_FILENAME == "pipelineconfig.toml"
required_env_number == 2

(***************************************************************************)
(* The persisted configuration (SamConfig over pipelineconfig.toml).  A    *)
(* store is [exists, envs, params]: envs is what get_env_names() returns,  *)
(* in its order and with the reserved "default" when the file has it;      *)
(* params[e] is what get_all(<bootstrap command>, "parameters", e)         *)
(* returns, a dict: a sequence of [key, value] with distinct keys.         *)
(***************************************************************************)
Range(s) == {s[i] : i \in 1..Len(s)}

NoStore == [exists |-> FALSE, envs |-> <<>>, params |-> <<>>]

\* the sequences without repetition over the set S, of length at most n
RECURSIVE DistinctSeqs(_, _)
DistinctSeqs(S, n) ==
    IF n = 0 THEN {<<>>}
    ELSE LET shorter == DistinctSeqs(S, n - 1)
         IN  shorter \cup
             {t \in {Append(s, x) : s \in shorter, x \in S} :
                  \A i, j \in 1..Len(t) : i # j => t[i] # t[j]}

Put(ctx, k, v) == [x \in DOMAIN ctx \cup {k} |-> IF x = k THEN v ELSE ctx[x]]

EmptyContext == [x \in {} |-> ""]

\* a plausible slip: the environment left out of the key
ContextKeyNoEnv(env, key) == PyStrList(<<key>>)

\* str([env, key]), the context key of one parameter of one environment
ContextKey(env, key) == PyStrList(<<env, key>>)

\* a plausible slip: the bare name as the key
MessageKeyBare == Str(ENVIRONMENT_NAMES_MESSAGE)

\* str(["environment_names_message"]), the context key of the summary
MessageKey == PyStrList(<<ENVIRONMENT_NAMES_MESSAGE>>)

\* a plausible slip: nothing filtered
IsBootstrappedEnvAll(env_name) == TRUE

\* the filter of the comprehension that builds env_names
IsBootstrappedEnv(env_name) == env_name # DEFAULT

\* the summary message of a store that exists
EnvironmentNamesMessage(names) ==
    "Here are the environment names detected "
    \o "in " \o PIPELINE_CONFIG_DIR \o "/" \o PIPELINE_CONFIG_FILENAME \o ":\n"
    \o JoinWith("\n", [i \in 1..Len(names) |-> "\t- " \o Str(names[i])])

RECURSIVE PutItems(_, _, _)
\* for key, value in items: context[str([env, key])] = value
PutItems(ctx, env, items) ==
    IF items = <<>> THEN ctx
    ELSE PutItems(Put(ctx, ContextKey(env, items[1].key), items[1].value),
                  env, Tail(items))

RECURSIVE PutEnvs(_, _, _)
\* for env in env_names: the items of config.get_all(..., section, env)
PutEnvs(ctx, names, st) ==
    IF names = <<>> THEN ctx
    ELSE PutEnvs(PutItems(ctx, names[1], st.params[names[1]]), Tail(names), st)

\* the calls made on the SamConfig object, in order
Query(op, env) == [op |-> op, env |-> env]

\* _load_pipeline_bootstrap_resources(): (env_names, context), and the
\* calls it makes on the store
LoadPipelineBootstrapResources(st) ==
    IF ~st.exists
    THEN [env_names |-> <<>>,
          context   |-> Put(EmptyContext, MessageKey, ""),
          queries   |-> <<Query("exists", <<>>)>>]
    ELSE LET names == SelectSeq(st.envs, IsBootstrappedEnv)
         IN  [env_names |-> names,
              context   |-> Put(PutEnvs(EmptyContext, names, st), MessageKey,
                                EnvironmentNamesMessage(names)),
              queries   |-> <<Query("exists", <<>>), Query("get_env_names", <<>>)>>
                            \o [i \in 1..Len(names) |-> Query("get_all", names[i])]]

(***************************************************************************)
(* The inputs the wizard meets.                                            *)
(***************************************************************************)
SAM_PIPELINE_TEMPLATE_SOURCE == "AWS Quick Start Pipeline Templates"
CUSTOM_PIPELINE_TEMPLATE_SOURCE == "Custom Pipeline Template Location"

\* the parameter dicts of one environment
Item(k, v) == [key |-> k, value |-> v]
ParamDicts ==
    { <<>>, <<Item(KEY_K, "v1")>>, <<Item(KEY_QK, "v2")>>,
      <<Item(KEY_ARN, "v1"), Item(KEY_K, "v2")>> }

\* the stores over the environment names in Names, their parameters in Dicts
StoresOver(Names, n, Dicts) ==
    {NoStore} \cup
    UNION { {[exists |-> TRUE, envs |-> es, params |-> ps] :
                 ps \in [Range(es) -> Dicts]} :
            es \in DistinctSeqs(Names, n) }

\* the stores the precondition checker is tried on
LoadStores == StoresOver({DEFAULT, DEV, PROD, ENV_A, ENV_AQ}, MaxEnvs, ParamDicts)

\* the stores a run of the wizard may start with
FlowStores == StoresOver({DEFAULT, DEV, PROD}, MaxFlowEnvs, {<<Item(KEY_ARN, "v1")>>})

\* what the bootstrap operation may leave behind: the store as it was (the
\* user gave up), one more environment recorded with its parameters, or the
\* parameters of an environment already there written anew, under another
\* key
BootstrapOutcomes(st) ==
    {st} \cup
    {[exists |-> TRUE,
      envs   |-> Append(st.envs, e),
      params |-> [x \in Range(st.envs) \cup {e} |->
                     IF x = e THEN <<Item(KEY_ARN, "v2")>> ELSE st.params[x]]] :
         e \in {DEFAULT, DEV, PROD} \ Range(st.envs)} \cup
    {[st EXCEPT !.params[e] = <<Item(KEY_K, "v3")>>] :
         e \in Range(st.envs) \ {DEFAULT}}

\* the relative paths a template may render, as path components.  The
\* working directory is a map over these paths only: a regular file of the
\* working directory sitting where a rendered path needs a directory is
\* outside the model
PathPool == { <<"pipeline.yaml">>, <<"Jenkinsfile">>, <<"scripts", "deploy.sh">> }

\* str(path)
PathStr(parts) == JoinWith("/", parts)

\* the orders os.walk may visit the files in: top-down, so the files of the
\* directory itself before those of its subdirectories
WalkOrders(files) ==
    {o \in DistinctSeqs(files, Cardinality(files)) :
        /\ Len(o) = Cardinality(files)
        /\ \A i, j \in 1..Len(o) : i < j => Len(o[i]) <= Len(o[j])}

(***************************************************************************)
(* The state.                                                              *)
(***************************************************************************)
VARIABLES
    pc,                 \* where the thread of control is
    error,              \* the exception do_interactive ended with, or "none"
    allow_bootstrap,    \* InteractiveInitFlow.allow_bootstrap
    store,              \* the persisted pipeline configuration
    cache_exists,       \* a clone of the catalogue is at the shared path
    cwd,                \* the working directory: path -> what is there
    source,             \* the answer to the template source question
    location_exists,    \* os.path.exists of the custom location, once asked
    clones,             \* calls of the clone operation
    tempdirs,           \* temporary directories made
    warned,             \* the stale-clone warning was printed
    template_dir,       \* what the template directory is
    providers,          \* the manifest's providers
    templates,          \* the manifest's templates
    provider,           \* <<the chosen provider>>, once chosen
    provider_questions, \* times the provider question was asked
    selected,           \* <<the chosen template>>, once chosen
    template_questions, \* times the template question was asked
    answer,             \* the last answer to a choice question
    env_names,          \* env_names of the last precondition check
    bootstrap_context,  \* bootstrap_context of the last precondition check
    queries,            \* the store calls of the last precondition check
    checks,             \* precondition checks made
    confirms,           \* times the bootstrap question was asked
    bootstraps,         \* runs of the bootstrap operation
    prompted,           \* the last iteration asked the bootstrap question
    ran_bootstrap,      \* the last iteration ran the bootstrap operation
    declined,           \* the user answered no to the bootstrap question
    initial_context,    \* <<the context given to the questionnaire>>
    questionnaires,     \* runs of the questionnaire
    generations,        \* runs of generate_project
    scratch,            \* the files rendered into generate_dir
    to_visit,           \* the files os.walk has yet to yield
    copied_file_paths,  \* copied_file_paths of the copy step
    copies,             \* calls of osutils.copytree
    generated_files,    \* <<the list do_interactive got back>>
    number_of_stages,   \* number_of_stages of _draw_stage_diagram
    line_index,         \* the lines of the diagram printed so far
    echoed              \* the lines _draw_stage_diagram printed

envVars == <<store, cache_exists, cwd>>
acquireVars == <<source, location_exists, clones, tempdirs, warned, template_dir>>
selectVars == <<providers, templates, provider, provider_questions, selected,
                template_questions, answer>>
loopVars == <<env_names, bootstrap_context, queries, checks, confirms,
              bootstraps, prompted, ran_bootstrap, declined>>
genVars == <<initial_context, questionnaires, generations, scratch, to_visit,
             copied_file_paths, copies, generated_files>>
diagramVars == <<number_of_stages, line_index, echoed>>
vars == <<pc, error, allow_bootstrap, envVars, acquireVars, selectVars,
          loopVars, genVars, diagramVars>>

\* a counter that stops at the model's bound
Bump(n) == IF n < MaxCount THEN n + 1 ELSE n

\* no template directory yet
NoAcquisition ==
    /\ source = "none"
    /\ location_exists = "not asked"
    /\ clones = 0
    /\ tempdirs = 0
    /\ warned = FALSE
    /\ template_dir = "none"

\* the template directory is a local path the user gave
LocalPathGiven ==
    /\ source = CUSTOM_PIPELINE_TEMPLATE_SOURCE
    /\ location_exists = "yes"
    /\ clones = 0
    /\ tempdirs = 0
    /\ warned = FALSE
    /\ template_dir = "local path"

\* the template directory is a clone of the catalogue just made
CatalogueCloned ==
    /\ source = SAM_PIPELINE_TEMPLATE_SOURCE
    /\ location_exists = "not asked"
    /\ clones = 1
    /\ tempdirs = 0
    /\ warned = FALSE
    /\ template_dir = "fresh clone"

\* no manifest in hand, nothing chosen
NoSelection ==
    /\ providers = <<>>
    /\ templates = <<>>
    /\ provider = <<>>
    /\ provider_questions = 0
    /\ selected = <<>>
    /\ template_questions = 0
    /\ answer = "none"

\* the precondition loop not entered
LoopNotEntered ==
    /\ env_names = <<>>
    /\ bootstrap_context = EmptyContext
    /\ queries = <<>>
    /\ checks = 0
    /\ confirms = 0
    /\ bootstraps = 0
    /\ prompted = FALSE
    /\ ran_bootstrap = FALSE
    /\ declined = FALSE

\* no questionnaire run, nothing generated
NothingGenerated ==
    /\ initial_context = <<>>
    /\ questionnaires = 0
    /\ generations = 0
    /\ scratch = {}
    /\ to_visit = <<>>
    /\ copied_file_paths = <<>>
    /\ copies = 0
    /\ generated_files = <<>>

\* no diagram drawn
NothingDrawn ==
    /\ number_of_stages = 0
    /\ line_index = 0
    /\ echoed = <<>>

\* InteractiveInitFlow(allow_bootstrap), in some environment
Init ==
    /\ pc = "source"
    /\ allow_bootstrap \in BOOLEAN
    /\ store \in FlowStores
    /\ cache_exists \in BOOLEAN
    /\ cwd \in [PathPool -> {"absent", "old"}]
    /\ error = "none"
    /\ NoAcquisition
    /\ NoSelection
    /\ LoopNotEntered
    /\ NothingGenerated
    /\ NothingDrawn

(***************************************************************************)
(* do_interactive: the template source, and the template directory.        *)
(***************************************************************************)
\* do_interactive up to the branch on the answer of the source question
ChooseSource ==
    /\ pc = "source"
    /\ \E s \in {SAM_PIPELINE_TEMPLATE_SOURCE, CUSTOM_PIPELINE_TEMPLATE_SOURCE} :
          /\ source' = s
          /\ pc' = IF s = CUSTOM_PIPELINE_TEMPLATE_SOURCE
                   THEN "custom_location" ELSE "clone_app"
    /\ UNCHANGED diagramVars
    /\ UNCHANGED <<error, allow_bootstrap, envVars, location_exists, clones,
                   tempdirs, warned, template_dir, selectVars, loopVars, genVars>>

\* a plausible slip: the failure of the clone let through as it is
ClonePipelineTemplatesRaw(outcome) == IF outcome = "ok" THEN "none" ELSE outcome

\* _clone_pipeline_templates: what the caller sees of GitRepo.clone ending
\* with outcome "ok", "OSError" or "CloneRepoException"
ClonePipelineTemplates(outcome) ==
    IF outcome \in {"OSError", "CloneRepoException"}
    THEN "PipelineTemplateCloneException"
    ELSE "none"

CloneOutcomes == {"ok", "OSError", "CloneRepoException"}

\* a plausible slip: the location cloned whether it is a local path or not
UsesLocalPathNever(exists) == FALSE

\* if os.path.exists(pipeline_template_git_location)
UsesLocalPath(exists) == exists

\* _generate_from_custom_location up to the clone: the prompt for the
\* location and the test whether it is a local path
CustomLocation ==
    /\ pc = "custom_location"
    /\ \E exists \in BOOLEAN :
          /\ location_exists' = IF exists THEN "yes" ELSE "no"
          /\ IF UsesLocalPath(exists)
             THEN /\ template_dir' = "local path"
                  /\ pc' = "init_template"
                  /\ UNCHANGED tempdirs
             ELSE /\ tempdirs' = tempdirs + 1
                  /\ pc' = "clone_custom"
                  /\ UNCHANGED template_dir
    /\ UNCHANGED diagramVars
    /\ UNCHANGED <<error, allow_bootstrap, envVars, source, clones, warned,
                   selectVars, loopVars, genVars>>

\* _generate_from_custom_location: the clone into the temporary directory
CloneCustom ==
    /\ pc = "clone_custom"
    /\ clones' = clones + 1
    /\ \E outcome \in CloneOutcomes :
          LET raised == ClonePipelineTemplates(outcome)
          IN  IF raised = "none"
              THEN /\ template_dir' = "custom clone"
                   /\ pc' = "init_template"
                   /\ UNCHANGED error
              ELSE /\ error' = raised
                   /\ pc' = "error"
                   /\ UNCHANGED template_dir
    /\ UNCHANGED diagramVars
    /\ UNCHANGED <<allow_bootstrap, envVars, source, location_exists, tempdirs,
                   warned, selectVars, loopVars, genVars>>

\* _clone_app_pipeline_templates: the clone into the shared path, and the
\* fall back on the clone of an earlier run
CloneApp ==
    /\ pc = "clone_app"
    /\ clones' = clones + 1
    /\ \E outcome \in CloneOutcomes :
          LET raised == ClonePipelineTemplates(outcome)
          IN  IF raised = "none"
              THEN /\ cache_exists' = TRUE
                   /\ template_dir' = "fresh clone"
                   /\ pc' = "read_manifest"
                   /\ UNCHANGED <<error, warned>>
              ELSE IF cache_exists
              THEN /\ warned' = TRUE
                   /\ template_dir' = "stale clone"
                   /\ pc' = "read_manifest"
                   /\ UNCHANGED <<error, cache_exists>>
              ELSE /\ error' = raised
                   /\ pc' = "error"
                   /\ UNCHANGED <<cache_exists, warned, template_dir>>
    /\ UNCHANGED diagramVars
    /\ UNCHANGED <<allow_bootstrap, store, cwd, source, location_exists,
                   tempdirs, selectVars, loopVars, genVars>>

(***************************************************************************)
(* The manifest and the choice of a template.                              *)
(***************************************************************************)
Provider(id, display_name) == [id |-> id, display_name |-> display_name]
Template(id, prov, display_name) ==
    [id |-> id, provider |-> prov, display_name |-> display_name,
     location |-> prov \o "/" \o id]

JENKINS  == Provider("jenkins", "Jenkins")
GITLAB   == Provider("gitlab", "GitLab")
\* a second provider shown under the name of the first
JENKINS2 == Provider("jenkins2", "Jenkins")
T1 == Template("t1", "jenkins", "Two-stage")
T2 == Template("t2", "jenkins", "Three-stage")
T3 == Template("t3", "gitlab", "Two-stage")
\* a second template of jenkins shown under the name of the first
T4 == Template("t4", "jenkins", "Two-stage")

\* the longest provider and template lists of a manifest
MaxProviders == 3
MaxTemplates == 3

Manifest(ps, ts) == [providers |-> ps, templates |-> ts]

\* the manifests the selection is tried on
SelectManifests ==
    {Manifest(ps, ts) :
        ps \in DistinctSeqs({JENKINS, GITLAB, JENKINS2}, MaxProviders),
        ts \in DistinctSeqs({T1, T2, T3, T4}, MaxTemplates)}

\* the manifests a run of the wizard may read
FlowManifests ==
    { Manifest(<<JENKINS>>, <<T1>>),
      Manifest(<<JENKINS, GITLAB>>, <<T1>>),
      Manifest(<<JENKINS, GITLAB>>, <<T1, T2, T3>>) }

\* a plausible slip: the parser's error caught and the run carried on
AfterManifestErrorCaught == "prompt_provider"

\* where the parser's error leaves the run: nothing catches it on the way
\* out of _generate_from_app_pipeline_templates and do_interactive
AfterManifestError == "error"

\* _read_app_pipeline_templates_manifest: the manifest, or the parser's error
ReadManifest ==
    /\ pc = "read_manifest"
    /\ \/ /\ error' = "AppPipelineTemplateManifestException"
          /\ pc' = AfterManifestError
          /\ UNCHANGED <<providers, templates>>
       \/ /\ \E m \in FlowManifests :
                /\ providers' = m.providers
                /\ templates' = m.templates
          /\ pc' = "prompt_provider"
          /\ UNCHANGED error
    /\ UNCHANGED <<diagramVars, allow_bootstrap, envVars, acquireVars, provider,
                   provider_questions, selected, template_questions, answer,
                   loopVars, genVars>>

\* [x.display_name for x in xs]
DisplayNames(xs) == [i \in 1..Len(xs) |-> xs[i].display_name]

\* next(x for x in xs if x.display_name == name)
FirstByDisplayName(xs, name) ==
    xs[CHOOSE i \in 1..Len(xs) :
          /\ xs[i].display_name = name
          /\ \A j \in 1..(i - 1) : xs[j].display_name # name]

\* a plausible slip: the question asked also of a single provider
SkipsProviderQuestionNever(available_providers) == FALSE

\* the test that spares the user the provider question
SkipsProviderQuestion(available_providers) == Len(available_providers) = 1

\* _prompt_cicd_provider(pipeline_templates_manifest.providers); a Choice
\* without options raises instead of asking
PromptCicdProvider ==
    /\ pc = "prompt_provider"
    /\ IF SkipsProviderQuestion(providers)
       THEN /\ provider' = <<providers[1]>>
            /\ pc' = "prompt_template"
            /\ UNCHANGED <<error, provider_questions, answer>>
       ELSE IF providers = <<>>
       THEN /\ error' = "ValueError"
            /\ pc' = "error"
            /\ UNCHANGED <<provider, provider_questions, answer>>
       ELSE \E chosen \in Range(DisplayNames(providers)) :
               /\ provider_questions' = provider_questions + 1
               /\ answer' = chosen
               /\ provider' = <<FirstByDisplayName(providers, chosen)>>
               /\ pc' = "prompt_template"
               /\ UNCHANGED error
    /\ UNCHANGED diagramVars
    /\ UNCHANGED <<allow_bootstrap, envVars, acquireVars, providers, templates,
                   selected, template_questions, loopVars, genVars>>

\* a plausible slip: the templates not filtered by the provider
ProviderPipelineTemplatesAll(ts, p) == ts

\* [t for t in templates if t.provider == provider.id]
ProviderPipelineTemplates(ts, p) ==
    LET OfProvider(t) == t.provider = p.id IN SelectSeq(ts, OfProvider)

\* a plausible slip: the question asked also of a single template
SkipsTemplateQuestionNever(available) == FALSE

\* the test that spares the user the template question
SkipsTemplateQuestion(available) == Len(available) = 1

\* _prompt_pipeline_template after the provider is chosen: the filter and
\* _prompt_provider_pipeline_template
PromptProviderPipelineTemplate ==
    /\ pc = "prompt_template"
    /\ LET available == ProviderPipelineTemplates(templates, provider[1])
       IN  IF SkipsTemplateQuestion(available)
           THEN /\ selected' = <<available[1]>>
                /\ pc' = "init_template"
                /\ UNCHANGED <<error, template_questions, answer>>
           ELSE IF available = <<>>
           THEN /\ error' = "ValueError"
                /\ pc' = "error"
                /\ UNCHANGED <<selected, template_questions, answer>>
           ELSE \E chosen \in Range(DisplayNames(available)) :
                   /\ template_questions' = template_questions + 1
                   /\ answer' = chosen
                   /\ selected' = <<FirstByDisplayName(available, chosen)>>
                   /\ pc' = "init_template"
                   /\ UNCHANGED error
    /\ UNCHANGED diagramVars
    /\ UNCHANGED <<allow_bootstrap, envVars, acquireVars, providers, templates,
                   provider, provider_questions, loopVars, genVars>>

(***************************************************************************)
(* _generate_from_pipeline_template: the precondition loop.                *)
(***************************************************************************)
\* the decimal digits
Digits == <<"0", "1", "2", "3", "4", "5", "6", "7", "8", "9">>

RECURSIVE IntStr(_)
\* f"{n}" of an int that is not negative
IntStr(n) ==
    IF n < 10 THEN Digits[n + 1]
    ELSE IntStr(n \div 10) \o Digits[(n % 10) + 1]

\* _lines_for_stage(stage_index)
LinesForStage(stage_index) ==
    << " _________ ",
       "|         |",
       "| Stage " \o IntStr(stage_index) \o " |",
       "|_________|" >>

\* a plausible slip: the arrow on every line
delimitersAllArrows == <<"->", "->", "->", "->">>

\* delimiters of _draw_stage_diagram
delimiters == <<"  ", "  ", "->", "  ">>

\* delimiter.join([stage_lines[stage_i][i] for stage_i in range(n)]), i
\* counted from 1
DiagramLine(n, i) ==
    LET stage_lines == [s \in 1..n |-> LinesForStage(s)]
    IN  JoinWith(delimiters[i], [s \in 1..n |-> stage_lines[s][i]])

\* what _draw_stage_diagram(n) prints, line by line
DrawStageDiagram(n) == [i \in 1..Len(delimiters) |-> DiagramLine(n, i)]

\* one round of the loop of _draw_stage_diagram: the next line printed
DrawLine ==
    /\ pc = "draw"
    /\ line_index < Len(delimiters)
    /\ line_index' = line_index + 1
    /\ echoed' = Append(echoed, DiagramLine(number_of_stages, line_index + 1))
    /\ pc' = IF line_index' = Len(delimiters) THEN "drawn" ELSE "draw"
    /\ UNCHANGED <<error, allow_bootstrap, envVars, acquireVars, selectVars,
                   loopVars, genVars, number_of_stages>>

\* a plausible slip: the error of questions.json caught and the run carried on
AfterQuestionsErrorCaught == "check"

\* where the error of questions.json leaves the run: nothing catches it on
\* the way out of _generate_from_pipeline_template and do_interactive
AfterQuestionsError == "error"

\* _generate_from_pipeline_template up to the loop: the template and its
\* questions.json, which may be missing or ill-formed.  The manifest and the
\* selection are locals of the caller that nothing reads from here on.
InitializePipelineTemplate ==
    /\ pc = "init_template"
    /\ \/ /\ error' = "QuestionsNotFoundException"
          /\ pc' = AfterQuestionsError
          /\ UNCHANGED diagramVars
       \/ /\ error' = "QuestionsFailedParsingException"
          /\ pc' = AfterQuestionsError
          /\ UNCHANGED diagramVars
       \/ /\ number_of_stages' = required_env_number
          /\ line_index' = Len(delimiters)
          /\ echoed' = DrawStageDiagram(required_env_number)
          /\ pc' = "check"
          /\ UNCHANGED error
    /\ providers' = <<>>
    /\ templates' = <<>>
    /\ provider' = <<>>
    /\ selected' = <<>>
    /\ answer' = "none"
    /\ UNCHANGED <<allow_bootstrap, envVars, acquireVars, provider_questions,
                   template_questions, loopVars, genVars>>

\* a plausible slip: > for >=
EnoughEnvironmentsStrict(names) == Len(names) > required_env_number

\* a plausible slip: the loop gives up after two checks
EnoughEnvironmentsCapped(names) ==
    Len(names) >= required_env_number \/ checks >= 2

\* not (len(env_names) < required_env_number)
EnoughEnvironments(names) == Len(names) >= required_env_number

\* a plausible slip: the configuration read on the first iteration only
ResourcesSeenOnce(st) ==
    IF checks = 0 THEN LoadPipelineBootstrapResources(st)
    ELSE [env_names |-> env_names, context |-> bootstrap_context,
          queries |-> <<>>]

\* what one iteration of the loop gets from _load_pipeline_bootstrap_resources
ResourcesSeen(st) == LoadPipelineBootstrapResources(st)

\* one iteration of the loop up to the bootstrap question: the configuration
\* is read, and the loop is left when it has enough environments
CheckResources ==
    /\ pc = "check"
    /\ LET loaded == ResourcesSeen(store)
       IN  /\ env_names' = loaded.env_names
           /\ bootstrap_context' = loaded.context
           /\ queries' = loaded.queries
           /\ pc' = IF EnoughEnvironments(loaded.env_names)
                    THEN "questionnaire" ELSE "prompt_bootstrap"
    /\ checks' = Bump(checks)
    /\ prompted' = FALSE
    /\ ran_bootstrap' = FALSE
    /\ UNCHANGED diagramVars
    /\ UNCHANGED <<error, allow_bootstrap, envVars, acquireVars, selectVars,
                   confirms, bootstraps, declined, genVars>>

\* a plausible slip: the loop goes on after a refusal
ContinuesAfterAlways(ran) == TRUE

\* the loop goes round again exactly when the bootstrap operation was run
ContinuesAfter(ran) == ran

\* a plausible slip: the question asked whatever the flag
MayBootstrapAlways == TRUE

\* if self.allow_bootstrap
MayBootstrap == allow_bootstrap

\* _prompt_run_bootstrap_within_pipeline_init and the branch on its result:
\* with the flag, the question, and on yes the bootstrap operation
PromptRunBootstrap ==
    /\ pc = "prompt_bootstrap"
    /\ IF MayBootstrap
       THEN \E yes \in BOOLEAN :
               /\ confirms' = Bump(confirms)
               /\ prompted' = TRUE
               /\ IF yes
                  THEN /\ store' \in BootstrapOutcomes(store)
                       /\ bootstraps' = Bump(bootstraps)
                       /\ ran_bootstrap' = TRUE
                       /\ pc' = IF ContinuesAfter(TRUE)
                                THEN "check" ELSE "questionnaire"
                       /\ UNCHANGED declined
                  ELSE /\ declined' = TRUE
                       /\ pc' = IF ContinuesAfter(FALSE)
                                THEN "check" ELSE "questionnaire"
                       /\ UNCHANGED <<store, bootstraps, ran_bootstrap>>
       ELSE /\ pc' = IF ContinuesAfter(FALSE) THEN "check" ELSE "questionnaire"
            /\ UNCHANGED <<store, confirms, bootstraps, prompted,
                           ran_bootstrap, declined>>
    /\ UNCHANGED diagramVars
    /\ UNCHANGED <<error, allow_bootstrap, cache_exists, cwd, acquireVars,
                   selectVars, env_names, bootstrap_context, queries, checks,
                   genVars>>

(***************************************************************************)
(* _generate_from_pipeline_template: the questionnaire and the files.      *)
(***************************************************************************)
\* pipeline_template.run_interactive_flows(bootstrap_context)
RunInteractiveFlows ==
    /\ pc = "questionnaire"
    /\ initial_context' = <<bootstrap_context>>
    /\ questionnaires' = questionnaires + 1
    /\ pc' = "generate"
    /\ UNCHANGED diagramVars
    /\ UNCHANGED <<error, allow_bootstrap, envVars, acquireVars, selectVars,
                   loopVars, generations, scratch, to_visit, copied_file_paths,
                   copies, generated_files>>

\* mkdir_temp and generate_project: the files rendered into generate_dir,
\* and the order os.walk will yield them in
GenerateProject ==
    /\ pc = "generate"
    /\ tempdirs' = tempdirs + 1
    /\ generations' = generations + 1
    /\ \E files \in SUBSET PathPool :
          /\ scratch' = files
          /\ to_visit' \in WalkOrders(files)
    /\ copied_file_paths' = <<>>
    /\ pc' = "verify"
    /\ UNCHANGED diagramVars
    /\ UNCHANGED <<error, allow_bootstrap, envVars, source, location_exists,
                   clones, warned, template_dir, selectVars, loopVars,
                   initial_context, questionnaires, copies, generated_files>>

\* a plausible slip: the test left out
TargetExistsNever(dir, target) == FALSE

\* a plausible slip: the test made of the whole directory, not of the path
TargetExistsAny(dir, target) == \E p \in DOMAIN dir : dir[p] # "absent"

\* a plausible slip: the test turned round
TargetExistsNegated(dir, target) == dir[target] = "absent"

\* target_file_path.exists()
TargetExists(dir, target) == dir[target] # "absent"

\* the body of the loops of _copy_dir_contents_to_cwd_fail_on_exist for the
\* next file of the walk
VerifyNext ==
    /\ pc = "verify"
    /\ to_visit # <<>>
    /\ LET target_file_path == Head(to_visit)
       IN  IF TargetExists(cwd, target_file_path)
           THEN /\ error' = "PipelineFileAlreadyExistsError"
                /\ pc' = "error"
                /\ UNCHANGED <<to_visit, copied_file_paths>>
           ELSE /\ copied_file_paths' =
                       Append(copied_file_paths, PathStr(target_file_path))
                /\ to_visit' = Tail(to_visit)
                /\ UNCHANGED <<error, pc>>
    /\ UNCHANGED diagramVars
    /\ UNCHANGED <<allow_bootstrap, envVars, acquireVars, selectVars, loopVars,
                   initial_context, questionnaires, generations, scratch,
                   copies, generated_files>>

\* osutils.copytree(source_dir, "."): every file of the source directory is
\* written to the same relative path, over what is there
CopyTree(dir, files) == [p \in DOMAIN dir |-> IF p \in files THEN "new" ELSE dir[p]]

\* the end of _copy_dir_contents_to_cwd_fail_on_exist, and the return to
\* do_interactive, which lists the files
CopyDirContents ==
    /\ pc = "verify"
    /\ to_visit = <<>>
    /\ cwd' = CopyTree(cwd, scratch)
    /\ copies' = copies + 1
    /\ generated_files' = <<copied_file_paths>>
    /\ pc' = "done"
    /\ UNCHANGED diagramVars
    /\ UNCHANGED <<error, allow_bootstrap, store, cache_exists, acquireVars,
                   selectVars, loopVars, initial_context, questionnaires,
                   generations, scratch, to_visit, copied_file_paths>>

\* another process, or another run of the wizard in the same directory,
\* creates a file in the working directory: nothing locks the directory
\* between the walk and the copy
ExternalWrite ==
    /\ \E p \in PathPool :
          /\ cwd[p] = "absent"
          /\ cwd' = [cwd EXCEPT ![p] = "other"]
    /\ UNCHANGED diagramVars
    /\ UNCHANGED <<pc, error, allow_bootstrap, store, cache_exists, acquireVars,
                   selectVars, loopVars, genVars>>

(***************************************************************************)
(* The specifications.                                                     *)
(***************************************************************************)
Next ==
    \/ ChooseSource
    \/ CustomLocation
    \/ CloneCustom
    \/ CloneApp
    \/ ReadManifest
    \/ PromptCicdProvider
    \/ PromptProviderPipelineTemplate
    \/ InitializePipelineTemplate
    \/ CheckResources
    \/ PromptRunBootstrap
    \/ RunInteractiveFlows
    \/ GenerateProject
    \/ VerifyNext
    \/ CopyDirContents

\* one run of do_interactive
Spec == Init /\ [][Next]_vars

\* _load_pipeline_bootstrap_resources on its own, on every store of LoadStores
InitLoad ==
    /\ pc = "check"
    /\ allow_bootstrap = FALSE
    /\ store \in LoadStores
    /\ cache_exists = FALSE
    /\ cwd = [p \in PathPool |-> "absent"]
    /\ error = "none"
    /\ LocalPathGiven
    /\ NoSelection
    /\ LoopNotEntered
    /\ NothingGenerated
    /\ NothingDrawn

NextLoad == CheckResources

SpecLoad == InitLoad /\ [][NextLoad]_vars

\* _prompt_pipeline_template on its own, on every manifest of SelectManifests
InitSelect ==
    /\ pc = "prompt_provider"
    /\ allow_bootstrap = FALSE
    /\ store = NoStore
    /\ cache_exists = TRUE
    /\ cwd = [p \in PathPool |-> "absent"]
    /\ error = "none"
    /\ CatalogueCloned
    /\ \E m \in SelectManifests :
          /\ providers = m.providers
          /\ templates = m.templates
    /\ provider = <<>>
    /\ provider_questions = 0
    /\ selected = <<>>
    /\ template_questions = 0
    /\ answer = "none"
    /\ LoopNotEntered
    /\ NothingGenerated
    /\ NothingDrawn

NextSelect == PromptCicdProvider \/ PromptProviderPipelineTemplate

SpecSelect == InitSelect /\ [][NextSelect]_vars

\* the precondition loop on its own, from the call of
\* _generate_from_pipeline_template with a local template to the start of
\* the questionnaire
InitLoop ==
    /\ pc = "init_template"
    /\ allow_bootstrap \in BOOLEAN
    /\ store \in FlowStores
    /\ cache_exists = FALSE
    /\ cwd = [p \in PathPool |-> "absent"]
    /\ error = "none"
    /\ LocalPathGiven
    /\ NoSelection
    /\ LoopNotEntered
    /\ NothingGenerated
    /\ NothingDrawn

NextLoop ==
    \/ InitializePipelineTemplate
    \/ CheckResources
    \/ PromptRunBootstrap
    \/ RunInteractiveFlows

\* _draw_stage_diagram on its own, for every number of stages of the model
InitDiagram ==
    /\ pc = "draw"
    /\ allow_bootstrap = FALSE
    /\ store = NoStore
    /\ cache_exists = FALSE
    /\ cwd = [p \in PathPool |-> "absent"]
    /\ error = "none"
    /\ LocalPathGiven
    /\ NoSelection
    /\ LoopNotEntered
    /\ NothingGenerated
    /\ number_of_stages \in 0..MaxStages
    /\ line_index = 0
    /\ echoed = <<>>

NextDiagram == DrawLine

SpecDiagram == InitDiagram /\ [][NextDiagram]_vars

\* the generation and the copy, from the end of the questionnaire of a run
\* on a local template without a configuration store, in a working
\* directory that other processes write to
InitConcurrent ==
    /\ pc = "generate"
    /\ allow_bootstrap = FALSE
    /\ store = NoStore
    /\ cache_exists = FALSE
    /\ cwd \in [PathPool -> {"absent", "old"}]
    /\ error = "none"
    /\ LocalPathGiven
    /\ NoSelection
    /\ env_names = LoadPipelineBootstrapResources(NoStore).env_names
    /\ bootstrap_context = LoadPipelineBootstrapResources(NoStore).context
    /\ queries = LoadPipelineBootstrapResources(NoStore).queries
    /\ checks = 1
    /\ confirms = 0
    /\ bootstraps = 0
    /\ prompted = FALSE
    /\ ran_bootstrap = FALSE
    /\ declined = FALSE
    /\ initial_context = <<bootstrap_context>>
    /\ questionnaires = 1
    /\ generations = 0
    /\ scratch = {}
    /\ to_visit = <<>>
    /\ copied_file_paths = <<>>
    /\ copies = 0
    /\ generated_files = <<>>
    /\ number_of_stages = required_env_number
    /\ line_index = Len(delimiters)
    /\ echoed = DrawStageDiagram(required_env_number)

NextConcurrent ==
    \/ GenerateProject
    \/ VerifyNext
    \/ CopyDirContents
    \/ ExternalWrite

ConcurrentSpec == InitConcurrent /\ [][NextConcurrent]_vars

\* the loop in a run that does not stop while it has a step to take: the one
\* thread runs on, and a question is answered
FairLoopSpec == InitLoop /\ [][NextLoop]_vars /\ WF_vars(NextLoop)

(***************************************************************************)
(* The generator: _copy_dir_contents_to_cwd_fail_on_exist.                 *)
(***************************************************************************)
\* a file of the rendered directory is at a path the working directory has
Conflict == \E p \in scratch : cwd[p] # "absent"

\* C1: while a file of the scratch directory has a path that exists in the
\* working directory, no step of the copy operation changes the working
\* directory or ends the operation well, the walk cannot come to its end,
\* and the step that meets the conflicting file raises
\* PipelineFileAlreadyExistsError; the run that ended with that error wrote
\* no file of the batch.
C1_ConflictFailsAndWritesNothing ==
    /\ [](pc = "verify" /\ Conflict =>
            \E i \in 1..Len(to_visit) : cwd[to_visit[i]] # "absent")
    /\ [](error = "PipelineFileAlreadyExistsError" =>
            /\ pc = "error"
            /\ copies = 0
            /\ generated_files = <<>>
            /\ \A p \in PathPool : cwd[p] # "new")
    /\ [][pc = "verify" /\ Conflict =>
            /\ cwd' = cwd
            /\ pc' \in {"verify", "error"}
            /\ to_visit # <<>>
            /\ (pc' = "error" <=> cwd[Head(to_visit)] # "absent")
            /\ (pc' = "error" => error' = "PipelineFileAlreadyExistsError")]_vars

\* C1's case: the error raised after a file without conflict was visited,
\* with another file without conflict not yet visited
C1_Witness ==
    /\ pc = "error"
    /\ error = "PipelineFileAlreadyExistsError"
    /\ copied_file_paths # <<>>
    /\ Len(to_visit) >= 2
    /\ cwd[to_visit[2]] = "absent"
    /\ \A p \in PathPool : cwd[p] # "new"

NotDefault(e) == e # DEFAULT

\* the environment names of the store that are not the reserved one, in the
\* store's order
Detected(st) == SelectSeq(st.envs, NotDefault)

InLoop == pc \in {"check", "prompt_bootstrap"}

\* the loop was entered and has been left for the questionnaire
LoopExited ==
    /\ checks >= 1
    /\ pc \in {"questionnaire", "generate", "verify", "done", "error"}

\* C3: after the check of an iteration the environments in hand are those
\* the store has now; the bootstrap question is reached only with fewer than
\* the required number, and a check that finds enough leaves the loop
\* without any question; the loop is left only with enough environments, or
\* from an iteration that did not run the bootstrap operation (the user said
\* no, or the flag is off); from the question the loop goes back to the
\* check exactly when the bootstrap operation was run.
C3_PreconditionLoop ==
    /\ [](pc \in {"prompt_bootstrap", "questionnaire"} =>
            checks >= 1 /\ env_names = Detected(store))
    /\ [](pc = "prompt_bootstrap" => Len(env_names) < 2)
    /\ [](pc = "questionnaire" =>
            \/ Len(env_names) >= 2
            \/ ~ran_bootstrap /\ (declined \/ ~allow_bootstrap))
    /\ [][pc = "check" =>
            /\ pc' = IF Len(Detected(store)) >= 2
                     THEN "questionnaire" ELSE "prompt_bootstrap"
            /\ confirms' = confirms
            /\ ~prompted'
            /\ store' = store]_vars
    /\ [][pc = "prompt_bootstrap" =>
            /\ pc' \in {"check", "questionnaire"}
            /\ (pc' = "check" <=> ran_bootstrap')
            /\ (ran_bootstrap' => prompted' /\ allow_bootstrap)
            /\ (store' # store => ran_bootstrap')]_vars

\* C3's case: the loop left with enough environments after two rounds that
\* ran the bootstrap operation
C3_Witness ==
    /\ pc = "questionnaire"
    /\ bootstraps = 2
    /\ checks = 3
    /\ Len(env_names) >= 2
    /\ ~declined

\* C4: in every run that does not stop, if the user at some time declines,
\* or the store at some time in the loop has the required number of
\* environments, the loop is left at some time.
C4_LoopTerminates ==
    (<>declined \/ <>(InLoop /\ Len(Detected(store)) >= 2)) => <>LoopExited

\* C4's case: the loop left by a refusal after a bootstrap run that did not
\* bring enough environments
C4_Witness ==
    /\ LoopExited
    /\ declined
    /\ bootstraps >= 1
    /\ Len(env_names) < 2

\* C5: however many rounds were made, while the flag is on, the user has
\* not declined and the last check found too few environments, the run is
\* still in the loop: no questionnaire and no generation has been started.
C5_NoIterationCap ==
    (checks >= 1 /\ allow_bootstrap /\ ~declined /\ Len(env_names) < 2) =>
        /\ InLoop
        /\ questionnaires = 0
        /\ generations = 0
        /\ copies = 0

(***************************************************************************)
(* The precondition checker: _load_pipeline_bootstrap_resources.           *)
(***************************************************************************)
\* a check has just been made: what it returned is in hand, and the store is
\* as the check read it
Checked == checks >= 1 /\ pc \in {"prompt_bootstrap", "questionnaire"}

\* the lines that list the names
Listing(names) == JoinWith("\n", [i \in 1..Len(names) |-> "\t- " \o Str(names[i])])

\* the pairs (environment, place in its parameter dict) of the environments
\* of the store that are not the reserved one
ParameterPlaces(st) ==
    {pl \in (Range(st.envs) \ {DEFAULT}) \X (1..2) : pl[2] <= Len(st.params[pl[1]])}

\* C6: the environment list a check returns never holds "default"; it holds
\* every other name of the store once, in the store's order (dev, prod,
\* default gives dev, prod); and the summary message of a store that exists
\* is the header followed by one line for each of those names, in that
\* order.
C6_EnvNamesExcludeDefault ==
    Checked =>
        /\ \A i \in 1..Len(env_names) : env_names[i] # DEFAULT
        /\ Range(env_names) = Range(store.envs) \ {DEFAULT}
        /\ Len(env_names) = Cardinality(Range(store.envs) \ {DEFAULT})
        /\ \A i, j \in 1..Len(env_names) :
              i < j => \E a, b \in 1..Len(store.envs) :
                          /\ a < b
                          /\ store.envs[a] = env_names[i]
                          /\ store.envs[b] = env_names[j]
        /\ (store.envs = <<DEV, PROD, DEFAULT>> => env_names = <<DEV, PROD>>)
        /\ (store.exists =>
              bootstrap_context[MessageKey] =
                  "Here are the environment names detected in "
                  \o ".aws-sam/pipeline/pipelineconfig.toml:\n"
                  \o Listing(env_names))

\* C6's case: the store of the scenario, checked
C6_Witness ==
    /\ Checked
    /\ store.envs = <<DEV, PROD, DEFAULT>>
    /\ env_names = <<DEV, PROD>>
    /\ bootstrap_context[MessageKey] =
           "Here are the environment names detected in "
           \o ".aws-sam/pipeline/pipelineconfig.toml:\n\t- dev\n\t- prod"

\* C7 as stated: without a store the check returns no environment and the
\* context whose one entry has the key environment_names_message and the
\* empty string as value, and asks the store nothing but whether it exists.
C7_AbsentStoreBareKey ==
    (Checked /\ ~store.exists) =>
        /\ env_names = <<>>
        /\ DOMAIN bootstrap_context = {"environment_names_message"}
        /\ bootstrap_context["environment_names_message"] = ""
        /\ queries = <<[op |-> "exists", env |-> <<>>]>>

\* C7 as amended: the one key is the rendering of the one-element list,
\* ['environment_names_message'].
C7_AbsentStore ==
    (Checked /\ ~store.exists) =>
        /\ env_names = <<>>
        /\ DOMAIN bootstrap_context = {"['environment_names_message']"}
        /\ bootstrap_context["['environment_names_message']"] = ""
        /\ queries = <<[op |-> "exists", env |-> <<>>]>>

\* C7's case: a check that found no store
C7_Witness ==
    /\ Checked
    /\ ~store.exists
    /\ Cardinality(DOMAIN bootstrap_context) = 1

\* C8: after a check the summary message is empty exactly when no
\* environment was detected.
C8_EmptyMessageWhenNoneDetected ==
    Checked => (bootstrap_context[MessageKey] = "" <=> env_names = <<>>)

\* C9: the context a check of an existing store returns holds, for every
\* parameter of every environment but the reserved one, the parameter's
\* value under the key of (environment, parameter); it holds the summary
\* under its own key, which is the key of no parameter; it holds as many
\* entries as there are such parameters and one more, so that no two
\* parameters share a key and nothing else is in it; and the parameters of
\* the reserved environment are not asked for.
C9_ContextEntries ==
    (Checked /\ store.exists) =>
        /\ \A pl \in ParameterPlaces(store) :
              LET item == store.params[pl[1]][pl[2]]
              IN  /\ ContextKey(pl[1], item.key) \in DOMAIN bootstrap_context
                  /\ bootstrap_context[ContextKey(pl[1], item.key)] = item.value
                  /\ ContextKey(pl[1], item.key) # MessageKey
        /\ MessageKey \in DOMAIN bootstrap_context
        /\ Cardinality(DOMAIN bootstrap_context) =
               1 + Cardinality(ParameterPlaces(store))
        /\ {q.env : q \in {r \in Range(queries) : r.op = "get_all"}} =
               Range(store.envs) \ {DEFAULT}

\* C9's case: two environments whose names and keys differ only in where the
\* quote falls, and a reserved environment with parameters of its own
C9_Witness ==
    /\ Checked
    /\ store.envs = <<ENV_AQ, DEFAULT, ENV_A>>
    /\ store.params[ENV_AQ] = <<Item(KEY_K, "v1")>>
    /\ store.params[ENV_A] = <<Item(KEY_QK, "v2")>>
    /\ store.params[DEFAULT] = <<Item(KEY_K, "v1")>>
    /\ Cardinality(DOMAIN bootstrap_context) = 3

(***************************************************************************)
(* The choice of the provider: _prompt_cicd_provider.                      *)
(***************************************************************************)
\* C10: the provider question is asked at most once; a provider chosen is
\* one of the manifest's; of a manifest with one provider it is that one,
\* chosen without the question; of a manifest with two or more, the question
\* was asked once and the provider's display name is the answer given.
C10_ProviderSelection ==
    /\ provider_questions <= 1
    /\ (pc = "prompt_provider" => provider = <<>> /\ provider_questions = 0)
    /\ (provider # <<>> =>
          /\ Len(provider) = 1
          /\ \E i \in 1..Len(providers) : providers[i] = provider[1]
          /\ (Len(providers) = 1 =>
                provider[1] = providers[1] /\ provider_questions = 0)
          /\ (Len(providers) >= 2 => provider_questions = 1)
          /\ (Len(providers) >= 2 /\ pc = "prompt_template" =>
                provider[1].display_name = answer))

\* C10's case: the one provider of a manifest chosen without a question
C10_Witness ==
    /\ pc = "prompt_template"
    /\ Len(providers) = 1
    /\ provider = <<providers[1]>>
    /\ provider_questions = 0
    /\ answer = "none"

(***************************************************************************)
(* The choice of a template: _prompt_pipeline_template.                    *)
(***************************************************************************)
\* the places of the manifest's templates that refer to the provider p
PlacesOfProvider(p) == {i \in 1..Len(templates) : templates[i].provider = p.id}

\* the template choice has been made
TemplateChosen == pc = "init_template" /\ provider # <<>> /\ selected # <<>>

\* C11: when the manifest has exactly one template of the chosen provider,
\* the template chosen is that one and the template question was not asked,
\* however many templates of other providers the manifest has; and the
\* template question is never asked before the choice.
C11_SingleTemplateNoPrompt ==
    /\ (pc \in {"prompt_provider", "prompt_template"} =>
            selected = <<>> /\ template_questions = 0)
    /\ (TemplateChosen /\ Cardinality(PlacesOfProvider(provider[1])) = 1 =>
            /\ \A i \in PlacesOfProvider(provider[1]) : selected = <<templates[i]>>
            /\ template_questions = 0)

\* C11's case: the one jenkins template chosen without a question from a
\* manifest that also has a template of another provider
C11_Witness ==
    /\ TemplateChosen
    /\ Cardinality(PlacesOfProvider(provider[1])) = 1
    /\ Len(templates) >= 2
    /\ selected = <<T1>>
    /\ template_questions = 0

\* C12: a template chosen is one of the manifest's templates and refers to
\* the provider that was chosen; with providers Jenkins and GitLab and the
\* one template t1 of jenkins, the answer "Jenkins" gives t1.
C12_TemplateOfSelectedProvider ==
    TemplateChosen =>
        /\ Len(selected) = 1
        /\ \E i \in 1..Len(templates) : templates[i] = selected[1]
        /\ selected[1].provider = provider[1].id
        /\ (/\ providers = <<JENKINS, GITLAB>>
            /\ templates = <<T1>>
            /\ provider = <<JENKINS>>
            => selected[1].id = "t1")

\* C12's case: of a manifest that lists a gitlab template before the
\* jenkins ones, Jenkins was answered and a jenkins template was chosen by
\* the template question
C12_Witness ==
    /\ TemplateChosen
    /\ provider = <<JENKINS>>
    /\ provider_questions = 1
    /\ templates[1] = T3
    /\ template_questions = 1
    /\ selected[1].provider = "jenkins"

(***************************************************************************)
(* The template directory: the clone and its failure.                      *)
(***************************************************************************)
\* the run ended with the clone-failed error
CloneFailed == error = "PipelineTemplateCloneException"

\* nothing of the questionnaire or of the generation has happened
NothingAfterAcquisition ==
    /\ checks = 0 /\ confirms = 0 /\ bootstraps = 0
    /\ questionnaires = 0 /\ generations = 0 /\ copies = 0
    /\ \A p \in PathPool : cwd[p] # "new"

\* C13: a clone step ends the run with no error but the clone-failed one,
\* never with the error of the clone operation itself.  On the catalogue
\* path the step ends the run only when no earlier clone is at the shared
\* path; with one there it goes on, and exactly when the clone failed the
\* warning is printed and the directory in use is the stale one.  On the
\* custom path the directory in use is never the stale catalogue clone and
\* no warning is printed, whether a catalogue clone is cached or not.  A run
\* ended by the clone-failed error has asked no bootstrap question, run no
\* questionnaire and written no file.
C13_CloneFailurePolicy ==
    /\ [](error \notin {"OSError", "CloneRepoException"})
    /\ [](CloneFailed => pc = "error" /\ NothingAfterAcquisition)
    /\ [](CloneFailed /\ source = SAM_PIPELINE_TEMPLATE_SOURCE => ~cache_exists)
    /\ [](warned <=> template_dir = "stale clone")
    /\ [](warned => source = SAM_PIPELINE_TEMPLATE_SOURCE /\ cache_exists)
    /\ [][pc = "clone_app" =>
            /\ clones' = clones + 1
            /\ \/ /\ error' = "none" /\ pc' = "read_manifest"
                  /\ template_dir' \in {"fresh clone", "stale clone"}
                  /\ (template_dir' = "stale clone" => cache_exists)
                  /\ cache_exists'
               \/ /\ CloneFailed' /\ pc' = "error"
                  /\ ~cache_exists /\ ~cache_exists'
                  /\ template_dir' = "none"]_vars
    /\ [][pc = "clone_custom" =>
            /\ clones' = clones + 1
            /\ cache_exists' = cache_exists
            /\ \/ /\ error' = "none" /\ pc' = "init_template"
                  /\ template_dir' = "custom clone"
               \/ /\ CloneFailed' /\ pc' = "error"
                  /\ template_dir' = "none"]_vars

\* C13's case on the catalogue path: the clone failed, an earlier clone was
\* there, and the run went on with it after the warning
C13_Witness ==
    /\ source = SAM_PIPELINE_TEMPLATE_SOURCE
    /\ warned
    /\ template_dir = "stale clone"
    /\ questionnaires = 1

\* C13's case on the custom path: the clone failed and ended the run though
\* a catalogue clone is cached
C13_WitnessCustom ==
    /\ source = CUSTOM_PIPELINE_TEMPLATE_SOURCE
    /\ CloneFailed
    /\ cache_exists
    /\ clones = 1

\* the custom path was taken and the location has been asked for
CustomAsked == source = CUSTOM_PIPELINE_TEMPLATE_SOURCE /\ location_exists # "not asked"

\* C14: on the custom path, a location that exists locally is the template
\* directory as it is, the clone operation is never called and the only
\* temporary directory made is the one of the generation; a location that
\* does not exist leads to one temporary directory and one call of the clone
\* operation; so the clone operation has been called exactly when the
\* location does not exist and the clone step has been taken.
C14_LocalPathUsedDirectly ==
    /\ [](CustomAsked /\ location_exists = "yes" =>
            /\ clones = 0
            /\ template_dir = "local path"
            /\ tempdirs = generations
            /\ pc # "clone_custom")
    /\ [](CustomAsked /\ location_exists = "no" =>
            /\ clones = (IF pc = "clone_custom" THEN 0 ELSE 1)
            /\ tempdirs = 1 + generations
            /\ template_dir \in {"none", "custom clone"})
    /\ [][pc = "custom_location" =>
            /\ location_exists' \in {"yes", "no"}
            /\ (location_exists' = "yes" <=> pc' = "init_template")
            /\ (location_exists' = "no" <=> pc' = "clone_custom")
            /\ clones' = 0]_vars

\* C14's case: the files generated from a local path without any clone
C14_Witness ==
    /\ CustomAsked
    /\ location_exists = "yes"
    /\ template_dir = "local path"
    /\ clones = 0
    /\ pc = "done"

\* the run ended with the manifest error
ManifestFailed == error = "AppPipelineTemplateManifestException"

\* C15: the manifest error is met only on the catalogue path, on reading
\* the manifest of the fresh clone or of the stale one; it ends the run: no
\* step follows it, and no provider or template question, no check of the
\* configuration, no bootstrap question or run, no questionnaire, no
\* generation and no file written came before it.
C15_ManifestFailureTerminal ==
    /\ [](ManifestFailed =>
            /\ pc = "error"
            /\ source = SAM_PIPELINE_TEMPLATE_SOURCE
            /\ template_dir \in {"fresh clone", "stale clone"}
            /\ provider_questions = 0 /\ template_questions = 0
            /\ provider = <<>> /\ selected = <<>>
            /\ NothingAfterAcquisition)
    /\ [][~ManifestFailed]_vars
    /\ [][pc = "read_manifest" =>
            \/ ManifestFailed' /\ pc' = "error" /\ cwd' = cwd
            \/ error' = "none" /\ pc' = "prompt_provider"]_vars

\* C15's case: the manifest of the stale clone, used after a failed clone,
\* could not be read
C15_Witness ==
    /\ ManifestFailed
    /\ warned
    /\ template_dir = "stale clone"
    /\ pc = "error"

\* C16: a step that runs the bootstrap operation, and so every step that
\* changes the store, is taken at the bootstrap question with the flag on,
\* fewer environments than required in hand and in the store, and the
\* question just answered yes.  With the flag off the question is never
\* asked, the operation never run, the store never changed, the
\* configuration checked once and no more, and from the place of the
\* question the run goes to the questionnaire with the context of that one
\* check, few environments or not.
C16_BootstrapOnlyWhenAllowed ==
    /\ [][ran_bootstrap' \/ store' # store \/ bootstraps' # bootstraps =>
            /\ pc = "prompt_bootstrap"
            /\ allow_bootstrap
            /\ Len(env_names) < required_env_number
            /\ Len(Detected(store)) < required_env_number
            /\ prompted' /\ ~declined'
            /\ ran_bootstrap']_vars
    /\ [](~allow_bootstrap =>
            /\ confirms = 0 /\ bootstraps = 0
            /\ ~prompted /\ ~ran_bootstrap /\ ~declined
            /\ checks <= 1
            /\ (pc \in {"prompt_bootstrap", "questionnaire", "generate",
                         "verify", "done"} => checks = 1)
            /\ (initial_context # <<>> =>
                    initial_context = <<LoadPipelineBootstrapResources(store).context>>))
    /\ [][~allow_bootstrap /\ pc = "prompt_bootstrap" =>
            /\ pc' = "questionnaire"
            /\ store' = store
            /\ bootstrap_context' = bootstrap_context]_vars

\* C16's case: with the flag off and one environment in the store, the
\* questionnaire was run after one check and no question
C16_Witness ==
    /\ ~allow_bootstrap
    /\ pc = "generate"
    /\ Len(env_names) = 1
    /\ checks = 1
    /\ confirms = 0
    /\ questionnaires = 1

(***************************************************************************)
(* The stage diagram: _draw_stage_diagram.                                 *)
(***************************************************************************)
\* the i-th row of the box of stage k
BoxRow(k, i) ==
    CASE i = 1 -> " _________ "
      [] i = 2 -> "|         |"
      [] i = 3 -> "| Stage " \o IntStr(k) \o " |"
      [] i = 4 -> "|_________|"

\* the i-th of the fixed delimiters
FixedDelimiter(i) == IF i = 3 THEN "->" ELSE "  "

RECURSIVE RowsJoined(_, _)
\* the i-th rows of the boxes of stages 1..n, n >= 1, in that order, each
\* two neighbours with the i-th delimiter between them
RowsJoined(n, i) ==
    IF n = 1 THEN BoxRow(1, i)
    ELSE RowsJoined(n - 1, i) \o FixedDelimiter(i) \o BoxRow(n, i)

\* C17: the diagram is printed line by line and has 4 lines when done; for
\* N >= 1 stages the i-th line printed is the i-th rows of the boxes of
\* Stage 1 .. Stage N in that order joined by the i-th of the delimiters
\* two spaces, two spaces, "->", two spaces; for N = 2 the four lines are
\* the two boxes side by side with the arrow on the third.
C17_StageDiagram ==
    /\ Len(echoed) = line_index
    /\ line_index <= 4
    /\ (pc = "drawn" => line_index = 4)
    /\ (number_of_stages >= 1 =>
            \A i \in 1..Len(echoed) : echoed[i] = RowsJoined(number_of_stages, i))
    /\ (number_of_stages = 2 /\ line_index = 4 =>
            echoed = << " _________    _________ ",
                       "|         |  |         |",
                       "| Stage 1 |->| Stage 2 |",
                       "|_________|  |_________|" >>)

\* C17's case: the diagram of two stages drawn to its last line
C17_Witness ==
    /\ pc = "drawn"
    /\ number_of_stages = 2
    /\ Len(echoed) = 4
    /\ echoed[3] = "| Stage 1 |->| Stage 2 |"

(***************************************************************************)
(* The order of the steps of do_interactive.                               *)
(***************************************************************************)
\* the step of the workflow a place of the run belongs to: 1 the source, 2
\* the template directory, 3 the manifest, 4 the provider and the template,
\* 5 the template's questions and the precondition loop, 6 the
\* questionnaire, 7 the generation, 8 the copy, 9 the end
StepOf(at) ==
    CASE at = "source" -> 1
      [] at \in {"custom_location", "clone_custom", "clone_app"} -> 2
      [] at = "read_manifest" -> 3
      [] at \in {"prompt_provider", "prompt_template"} -> 4
      [] at \in {"init_template", "check", "prompt_bootstrap"} -> 5
      [] at = "questionnaire" -> 6
      [] at = "generate" -> 7
      [] at = "verify" -> 8
      [] at = "done" -> 9

OnCuratedPath == source = SAM_PIPELINE_TEMPLATE_SOURCE

\* C18: every step of a run is taken with no error raised so far, and it
\* either ends the run with an error or stays in its step of the workflow or
\* goes to the next one, in the order source, template directory, manifest,
\* provider and template, precondition loop, questionnaire, generation,
\* copy; only the custom path goes from the template directory straight to
\* the precondition loop, and it asks no provider or template question.  An
\* error is raised exactly where the run ends in error.  The questionnaire,
\* the generation and the copy are each run at most once, each only after
\* the one before it; and a file is written to the working directory only
\* by the copy, after the questionnaire and the generation.
C18_WorkflowOrder ==
    /\ [][/\ pc # "error" /\ error = "none"
          /\ \/ pc' = "error" /\ error' # "none"
             \/ /\ pc' # "error" /\ error' = "none"
                /\ \/ StepOf(pc') = StepOf(pc)
                   \/ StepOf(pc') = StepOf(pc) + 1
                   \/ /\ ~OnCuratedPath'
                      /\ StepOf(pc) = 2 /\ StepOf(pc') = 5]_vars
    /\ [](error # "none" <=> pc = "error")
    /\ [](pc # "error" /\ StepOf(pc) \in {3, 4} => OnCuratedPath)
    /\ [](~OnCuratedPath => provider_questions = 0 /\ template_questions = 0)
    /\ [](pc # "error" =>
            /\ questionnaires = (IF StepOf(pc) >= 7 THEN 1 ELSE 0)
            /\ generations = (IF StepOf(pc) >= 8 THEN 1 ELSE 0)
            /\ copies = (IF StepOf(pc) >= 9 THEN 1 ELSE 0)
            /\ (checks >= 1 <=>
                    StepOf(pc) >= 6 \/ pc = "prompt_bootstrap"
                    \/ (pc = "check" /\ bootstraps >= 1))
            /\ (template_dir # "none" <=> StepOf(pc) >= 3)
            /\ (source # "none" <=> StepOf(pc) >= 2))
    /\ [](questionnaires <= 1 /\ generations <= 1 /\ copies <= 1)
    /\ [](copies <= generations /\ generations <= questionnaires
           /\ (questionnaires = 1 => checks >= 1 /\ template_dir # "none"))
    /\ [][cwd' # cwd =>
            /\ copies = 0 /\ copies' = 1
            /\ questionnaires = 1 /\ generations = 1
            /\ pc = "verify" /\ pc' = "done"]_vars

\* C18's case: a run on the catalogue path that asked both questions, went
\* round the precondition loop, and wrote its files
C18_Witness ==
    /\ pc = "done"
    /\ OnCuratedPath
    /\ provider_questions = 1 /\ template_questions = 1
    /\ bootstraps >= 1
    /\ questionnaires = 1 /\ generations = 1 /\ copies = 1
    /\ \E p \in PathPool : cwd[p] = "new"

(***************************************************************************)
(* The generator beside other writers of the working directory.            *)
(***************************************************************************)
\* a step of the generator, not of another process
GeneratorStep == pc' # pc \/ to_visit' # to_visit

\* the walk is over, no conflict was reported, and a path of the rendered
\* directory that the walk found absent has since been created by another
\* process
CreatedAfterDetection ==
    /\ pc = "verify" /\ to_visit = <<>> /\ error = "none"
    /\ \E p \in scratch : cwd[p] = "other"

\* C19: beside other writers of the working directory, the walk tests each
\* path once, when it visits it, and raises the conflict error only for the
\* path it is visiting; when the walk is over the copy is always ready to be
\* taken, also when a path of the rendered directory has been created since
\* its test, and the copy step raises no error and leaves every path of
\* the rendered directory written anew, the created one included.
C19_CheckThenCopyRace ==
    /\ [][pc = "verify" /\ to_visit # <<>> /\ GeneratorStep =>
            IF cwd[Head(to_visit)] # "absent"
            THEN error' = "PipelineFileAlreadyExistsError" /\ pc' = "error"
                 /\ cwd' = cwd
            ELSE error' = "none" /\ pc' = "verify"
                 /\ to_visit' = Tail(to_visit) /\ cwd' = cwd]_vars
    /\ [](pc = "verify" /\ to_visit = <<>> => ENABLED CopyDirContents)
    /\ [][pc = "verify" /\ to_visit = <<>> /\ GeneratorStep =>
            /\ pc' = "done" /\ error' = "none"
            /\ \A p \in scratch : cwd'[p] = "new"
            /\ \A p \in PathPool \ scratch : cwd'[p] = cwd[p]
            /\ generated_files' = <<copied_file_paths>>]_vars

\* C19's case: the path of a rendered file was created by another process
\* after the walk tested it, and the copy is about to write over it
C19_Witness ==
    /\ CreatedAfterDetection
    /\ Len(copied_file_paths) = Cardinality(scratch)
    /\ ENABLED CopyDirContents

(***************************************************************************)
(* The context given to the questionnaire.                                 *)
(***************************************************************************)
\* the context a check of the store as it is now builds
ContextOfStore == LoadPipelineBootstrapResources(store).context

\* the entry under the key k is the summary, or a parameter that the store
\* holds now for an environment that is not the reserved one
HeldByStore(ctx, k) ==
    \/ k = MessageKey
    \/ \E e \in Range(Detected(store)) :
          \E i \in 1..Len(store.params[e]) :
             /\ k = ContextKey(e, store.params[e][i].key)
             /\ ctx[k] = store.params[e][i].value

\* C20: every check of the loop builds the context anew from the store as
\* it is then; at the bootstrap question and at the start of the
\* questionnaire the context in hand is the one of the store as the last
\* bootstrap run left it; the questionnaire is given that context; and
\* every entry of what it is given is held by the store now, so none is
\* left from an earlier check.
C20_ContextOfLastCheck ==
    /\ [][pc = "check" =>
            /\ bootstrap_context' = ContextOfStore
            /\ env_names' = Detected(store)
            /\ store' = store]_vars
    /\ [](pc \in {"prompt_bootstrap", "questionnaire"} =>
            bootstrap_context = ContextOfStore)
    /\ [][pc = "questionnaire" =>
            initial_context' = <<bootstrap_context>>]_vars
    /\ [](initial_context # <<>> =>
            /\ Len(initial_context) = 1
            /\ initial_context[1] = ContextOfStore
            /\ \A k \in DOMAIN initial_context[1] :
                  HeldByStore(initial_context[1], k))

\* C20's case: the questionnaire started after two bootstrap runs, the
\* first of which wrote the parameters of dev anew; its context has the new
\* parameter of dev and not the one the first check saw
C20_Witness ==
    /\ pc = "generate"
    /\ bootstraps = 2
    /\ checks = 3
    /\ initial_context # <<>>
    /\ ContextKey(DEV, KEY_K) \in DOMAIN initial_context[1]
    /\ initial_context[1][ContextKey(DEV, KEY_K)] = "v3"
    /\ ContextKey(DEV, KEY_ARN) \notin DOMAIN initial_context[1]
    /\ ContextKey(PROD, KEY_ARN) \in DOMAIN initial_context[1]

\* C5's case: the bootstrap operation run as often as the model counts, the
\* store still without an environment, and the question asked again
C5_Witness ==
    /\ pc = "prompt_bootstrap"
    /\ bootstraps = MaxCount
    /\ checks = MaxCount
    /\ Detected(store) = <<>>
    /\ questionnaires = 0
=============================================================================
